---- MODULE Spec2Model ----
(***************************************************************************)
(* Model of main.py of WUOG-In-Philosophy-Checker: the backward weekly     *)
(* scan of the Billboard Hot 100 and Billboard 200 for an artist, with its *)
(* sqlite cache, its odd-date table and its "featuring" exclusion.         *)
(*                                                                         *)
(* Dates are day numbers on a compressed calendar whose Saturdays are the  *)
(* multiples of 7; a date and its ISO string (isoformat / fromisoformat,   *)
(* the keys of the tables) are the same number, ISO strings of dates being *)
(* ordered as the dates are.  The calendar keeps the shape of the          *)
(* program's constants: the Billboard 200 horizon is a Saturday, the one   *)
(* odd date is a Saturday whose chart is dated the Sunday after it, and    *)
(* the Hot 100 horizon lies TwentyYears days before TODAY.                 *)
(*                                                                         *)
(* Strings are sequences of one-character strings, so that substring       *)
(* search, join, split, strip and lower() are computed and not assumed.    *)
(*                                                                         *)
(* The Chart Source (billboard.ChartData) is the environment: it rounds a  *)
(* requested date up to the next date a chart was published on, serves the *)
(* same chart for the same week every time it is asked, may serve a chart  *)
(* without entries, and may fail.                                          *)
(***************************************************************************)
EXTENDS Integers, Sequences, FiniteSets, TLC

VARIABLES
    today,      \* TODAY, fixed when the process starts (line 24)
    chartData,  \* what the Chart Source publishes, as far as it has been read
    db,         \* billboard.db: table name -> (date -> artists string)
    pc,         \* position of main() / find_in_table()
    query,      \* query_lowered of main()
    chart,      \* chart_name of the running scan
    start_date, \* start_date argument of the running scan
    stop_date,  \* stop_date argument of the running scan
    curr_week,  \* curr_week at the head of the while loop
    result,     \* value returned by the last scan (FoundInfo or None)
    asked,      \* number of artist names read so far
    log,        \* cache and source operations of the running scan, in order
    cands,      \* values of curr_week at the loop head in the running scan
    prev_hit    \* date of the hit the running scan continues from, or NoDate

vars == <<today, chartData, db, pc, query, chart, start_date, stop_date,
          curr_week, result, asked, log, cands, prev_hit>>

-----------------------------------------------------------------------------
(* Bounds of the model *)

\* Number of artist names one process run reads.
MaxQueries == 1

\* Stand-in, in days, for the twenty years between TODAY and the Hot 100 horizon.
TwentyYears == 21

\* Longest roster drawn for the matcher's own specification.
MaxRosterLen == 3

-----------------------------------------------------------------------------
(* Strings *)

\* " featuring ", the literal of line 107.
FEATURING == <<" ", "f", "e", "a", "t", "u", "r", "i", "n", "g", " ">>

\* The backquote character (SANY has no string literal for it).
Backquote == "backquote"

\* ARTIST_SEPARATOR (line 27): backquote, tilde.
ARTIST_SEPARATOR == <<Backquote, "~">>

\* str.lower() on one character of the model's alphabet.
LowerChar(c) ==
    CASE c = "K" -> "k"
      [] c = "X" -> "x"
      [] c = "Y" -> "y"
      [] OTHER -> c

\* str.lower().
Lower(s) == [i \in 1..Len(s) |-> LowerChar(s[i])]

\* str.strip(): drop leading and trailing blanks.
RECURSIVE LStrip(_)
LStrip(s) == IF s # <<>> /\ Head(s) = " " THEN LStrip(Tail(s)) ELSE s

RECURSIVE RStrip(_)
RStrip(s) ==
    IF s # <<>> /\ s[Len(s)] = " " THEN RStrip(SubSeq(s, 1, Len(s) - 1)) ELSE s

Strip(s) == RStrip(LStrip(s))

\* Positions at which sub occurs in s (1-based start indices).
Occurrences(sub, s) ==
    {i \in 1..(Len(s) - Len(sub) + 1) : SubSeq(s, i, i + Len(sub) - 1) = sub}

\* Python's "sub in s".
Contains(sub, s) == Occurrences(sub, s) # {}

\* The least element of a non-empty set of integers.
Min(S) == CHOOSE x \in S : \A y \in S : x <= y

\* sep.join(list).
RECURSIVE Join(_, _)
Join(sep, list) ==
    IF list = <<>> THEN <<>>
    ELSE IF Len(list) = 1 THEN list[1]
    ELSE list[1] \o sep \o Join(sep, Tail(list))

\* s.split(sep), sep non-empty: cut at each occurrence, left to right.
RECURSIVE Split(_, _)
Split(s, sep) ==
    IF ~Contains(sep, s) THEN <<s>>
    ELSE LET i == Min(Occurrences(sep, s))
         IN  <<SubSeq(s, 1, i - 1)>> \o Split(SubSeq(s, i + Len(sep), Len(s)), sep)

\* directly_follows made symmetric: a next to b on either side.
directly_follows_either(a, b, src) == Contains(b \o a, src) \/ Contains(a \o b, src)

\* directly_follows with the operands in the other order: "a+b in src".
directly_follows_swapped(a, b, src) == Contains(a \o b, src)

\* directly_follows(a, b, src): "b+a in src".
directly_follows(a, b, src) == Contains(b \o a, src)

-----------------------------------------------------------------------------
(* Dates *)

\* timedelta(weeks=1) in days.
WeekDays == 7

\* BILLBOARD_200_EARLIEST, a Saturday of the compressed calendar.
BILLBOARD_200_EARLIEST == 7

\* The key of ODD_DATES: the Saturday whose chart came out a day late.
OddSaturday == 21

\* ODD_DATES: canonical date -> date the chart was published on.
ODD_DATES == (OddSaturday :> (OddSaturday + 1))

\* TWENTY_YEARS_AGO, from TODAY.
TWENTY_YEARS_AGO == today - TwentyYears

\* key_from_value(d, val): the first key of d whose value is val.
key_from_value(d, val) == Min({k \in DOMAIN d : d[k] = val})

\* A stand-in date for "no date".
NoDate == 0 - 1

-----------------------------------------------------------------------------
(* The Chart Source (billboard.ChartData) *)

\* The two charts main() searches.
Charts == {"hot-100", "billboard-200"}

\* Range of a function.
Range(f) == {f[x] : x \in DOMAIN f}

\* Dates on which a chart was published: every Saturday, except that the
\* chart of an odd Saturday came out on the date ODD_DATES gives.
IsPublished(d) ==
    \/ d % WeekDays = 0 /\ d \notin DOMAIN ODD_DATES
    \/ d \in Range(ODD_DATES)

\* chart.date of billboard.ChartData(chart_name, d): the Chart Source rounds a
\* date up to the nearest date on which a chart was published.
ChartDate(d) == Min({p \in d..(d + WeekDays) : IsPublished(p)})

\* Artist credits as the source spells them.
eY == <<"Y">>
eK == <<"k">>
eKfY == <<"K">> \o FEATURING \o <<"y">>
eKfX == <<"K">> \o FEATURING \o <<"X">>
eXfK == <<"x">> \o FEATURING \o <<"k">>
eYK == <<"y", "k">>

\* The charts the source may publish for a week (each a list of entry artists).
SourceCharts ==
    { <<>>,              \* a week the source serves without entries
      <<eK>>,
      <<eY, eKfX>>,
      <<eXfK, eK>> }

\* What the user may type at "artist name: ".
TypedNames == { <<"K">>, <<" ", "y", " ">> }

\* The dates TODAY may be.
TodayChoices == {22, 30}

-----------------------------------------------------------------------------
(* The cache *)

\* chart_name_to_table_name (lines 54-60).
chart_name_to_table_name(chart_name) ==
    IF chart_name = "hot-100" THEN "hot100"
    ELSE IF chart_name = "billboard-200" THEN "bb200"
    ELSE ""

Tables == {"hot100", "bb200"}

\* s[0:n] with the slice one entry too long.
Take_one_more(s, n) == SubSeq(s, 1, IF Len(s) < n + 1 THEN Len(s) ELSE n + 1)

\* The first n elements of a sequence: s[0:n].
Take(s, n) == SubSeq(s, 1, IF Len(s) < n THEN Len(s) ELSE n)

\* The number of Billboard 200 entries kept (chart[0:20], line 70).
Bb200Kept == 20

\* Lines 70-71: the entries kept for the chart, joined and lowercased.
artists_str_of(chart_name, entries) ==
    LET kept == IF chart_name = "hot-100" THEN entries ELSE Take(entries, Bb200Kept)
    IN  Lower(Join(ARTIST_SEPARATOR, kept))

\* A table with the row (k, v) added.
Put(f, k, v) == [x \in (DOMAIN f) \cup {k} |-> IF x = k THEN v ELSE f[x]]

\* A table restricted to the rows whose key is in S.
Restrict(f, S) == [x \in S |-> f[x]]

\* The empty table.
NoRows == <<>>

\* The rows earlier runs of the program left in billboard.db, given as the
\* charts the source served then: chart -> (published date -> entries).
EarlierRuns ==
    { [c \in Charts |-> NoRows],
      [c \in Charts |->
          IF c = "hot-100"
          THEN (0 :> <<eK>>) @@ (7 :> <<eK>>) @@ (14 :> <<>>)
                   @@ (28 :> <<eY, eKfX>>)
          ELSE (7 :> <<eY>>) @@ (14 :> <<eK>>) @@ (28 :> <<>>)] }

\* billboard.db as those runs left it.
StoredBy(data) ==
    [t \in Tables |->
        LET c == CHOOSE x \in Charts : chart_name_to_table_name(x) = t
        IN  [d \in DOMAIN data[c] |-> artists_str_of(c, data[c][d])]]

-----------------------------------------------------------------------------
(* The matcher *)

\* FoundInfo (lines 15-18).
FoundInfo(d, a, p) == [date |-> d, artist |-> a, position |-> p]

\* None, as a value of the same shape.
None == [date |-> NoDate, artist |-> <<>>, position |-> 0]

\* The greatest element of a non-empty set of integers.
Max(S) == CHOOSE x \in S : \A y \in S : x >= y

\* find_in_week that keeps going through the entries and reports the last one
\* that contains the artist.
find_in_week_last(artist, d, res_str) ==
    IF Contains(artist, res_str) /\ ~directly_follows(artist, FEATURING, res_str)
    THEN LET artists_list == Split(res_str, ARTIST_SEPARATOR)
             hits == {i \in 1..Len(artists_list) : Contains(artist, artists_list[i])}
         IN  IF hits = {} THEN None
             ELSE FoundInfo(d, artists_list[Max(hits)], Max(hits))
    ELSE None

\* find_in_week whose loop over the entries starts at the second entry.
find_in_week_skip_first(artist, d, res_str) ==
    IF Contains(artist, res_str) /\ ~directly_follows(artist, FEATURING, res_str)
    THEN LET artists_list == Split(res_str, ARTIST_SEPARATOR)
             hits == {i \in 2..Len(artists_list) : Contains(artist, artists_list[i])}
         IN  IF hits = {} THEN None
             ELSE FoundInfo(d, artists_list[Min(hits)], Min(hits))
    ELSE None

\* Lines 107-114 on one week: the FoundInfo returned for week d whose
\* stored string is res_str, or None when the loop goes on.
find_in_week(artist, d, res_str) ==
    IF Contains(artist, res_str) /\ ~directly_follows(artist, FEATURING, res_str)
    THEN LET artists_list == Split(res_str, ARTIST_SEPARATOR)
             hits == {i \in 1..Len(artists_list) : Contains(artist, artists_list[i])}
         IN  IF hits = {} THEN None
             ELSE FoundInfo(d, artists_list[Min(hits)], Min(hits))
    ELSE None

-----------------------------------------------------------------------------
(* State after the process has started, before main() runs *)

\* An entry of the log of the running scan.
\*   "resolve": the source call of line 86 for start_date `date`
\*   "lookup" : the SELECT of line 98 for `date`; hit says whether a row came back
\*   "fetch"  : the source call of line 68 for `date`; key is the chart.date it gave
\*   "insert" : the INSERT of line 73 under `key`, made for the request `date`
Event(o, d, k, h) == [op |-> o, date |-> d, key |-> k, hit |-> h]

Init ==
    /\ today \in TodayChoices
    /\ \E data \in EarlierRuns :
          /\ chartData = data
          /\ db = StoredBy(data)
    /\ pc = "init"
    /\ query = <<>>
    /\ chart = "hot-100"
    /\ start_date = NoDate
    /\ stop_date = NoDate
    /\ curr_week = NoDate
    /\ result = None
    /\ asked = 0
    /\ log = <<>>
    /\ cands = <<>>
    /\ prev_hit = NoDate

-----------------------------------------------------------------------------
(* init_db (lines 129-142) *)

\* The UTC date minus the local date, in days: sqlite's date('now') is the
\* UTC date, TODAY (date.today(), line 24) is the local one.
UtcSkews == {0 - 1, 0, 1}

\* date('now','-20 years') (line 137), from the UTC date now.
SqliteHorizon(now) == now - TwentyYears

\* The hot100 rows that survive "DELETE ... WHERE date < date('now','-20 years')"
\* (the ISO strings compare as the dates do).
NotTooOld(rows, now) ==
    Restrict(rows, {d \in DOMAIN rows : ~(d < SqliteHorizon(now))})

\* The rows that survive "DELETE ... WHERE artists=''".
NotEmpty(rows) == Restrict(rows, {d \in DOMAIN rows : rows[d] # <<>>})

\* Lines 136-141: the three DELETE statements, run on the UTC date now.
init_db(store, now) ==
    [t \in Tables |->
        IF t = "hot100" THEN NotEmpty(NotTooOld(store[t], now))
        ELSE NotEmpty(store[t])]

InitDb ==
    /\ pc = "init"
    /\ \E skew \in UtcSkews : db' = init_db(db, today + skew)
    /\ pc' = "input"
    /\ UNCHANGED <<today, chartData, query, chart, start_date, stop_date,
                   curr_week, result, asked, log, cands, prev_hit>>

-----------------------------------------------------------------------------
(* main (lines 160-184) *)

\* Lines 163-167: read a name, strip and lowercase it, search the Hot 100 from TODAY.
Input ==
    /\ pc = "input"
    /\ asked < MaxQueries
    /\ \E typed \in TypedNames : query' = Lower(Strip(typed))
    /\ asked' = asked + 1
    /\ chart' = "hot-100"
    /\ start_date' = today
    /\ stop_date' = TWENTY_YEARS_AGO
    /\ prev_hit' = NoDate
    /\ pc' = "call"
    /\ UNCHANGED <<today, chartData, db, curr_week, result, log, cands>>

\* Lines 168-173 and 176-181: a hit was printed and the user pressed [c]; the
\* same chart is searched again from one week before the hit.
ContinueAfterHit ==
    /\ pc = "returned"
    /\ result # None
    /\ start_date' = result.date - WeekDays
    /\ prev_hit' = result.date
    /\ pc' = "call"
    /\ UNCHANGED <<today, chartData, db, query, chart, stop_date, curr_week,
                   result, asked, log, cands>>

\* Lines 174-175: the Hot 100 search returned None; search the Billboard 200.
SearchBb200 ==
    /\ pc = "returned"
    /\ result = None
    /\ chart = "hot-100"
    /\ chart' = "billboard-200"
    /\ start_date' = today
    /\ stop_date' = BILLBOARD_200_EARLIEST
    /\ prev_hit' = NoDate
    /\ pc' = "call"
    /\ UNCHANGED <<today, chartData, db, query, curr_week, result, asked, log,
                   cands>>

\* Lines 182-184: the Billboard 200 search returned None; "not found" is printed.
NotFound ==
    /\ pc = "returned"
    /\ result = None
    /\ chart = "billboard-200"
    /\ pc' = "again"
    /\ UNCHANGED <<today, chartData, db, query, chart, start_date, stop_date,
                   curr_week, result, asked, log, cands, prev_hit>>

\* continue_or_quit at line 184, [c]: back to the prompt.  (Any key other
\* than [c] and [q] is read over, lines 149-153, and changes nothing.)
ContinueAgain ==
    /\ pc = "again"
    /\ pc' = "input"
    /\ UNCHANGED <<today, chartData, db, query, chart, start_date, stop_date,
                   curr_week, result, asked, log, cands, prev_hit>>

\* continue_or_quit, [q]: sys.exit().
Quit ==
    /\ \/ pc = "again"
       \/ pc = "returned" /\ result # None
    /\ pc' = "exit"
    /\ UNCHANGED <<today, chartData, db, query, chart, start_date, stop_date,
                   curr_week, result, asked, log, cands, prev_hit>>

-----------------------------------------------------------------------------
(* find_in_table (lines 77-121) *)

\* Line 90: the loop condition.
loop_goes_on(week, stop) == week > stop

\* Lines 92-96: the date the week is looked up under.
query_date(week) == IF week \in DOMAIN ODD_DATES THEN ODD_DATES[week] ELSE week

\* next_week without the restore of lines 116-117: the week is subtracted
\* from the substituted date.
next_week_no_restore(looked_up, curr_is_odd_date) == looked_up - WeekDays

\* next_week with line 119 skipped after a restore: an odd week is not left.
next_week_stuck(looked_up, curr_is_odd_date) ==
    IF curr_is_odd_date THEN key_from_value(ODD_DATES, looked_up)
    ELSE looked_up - WeekDays

\* Lines 116-119: the next value of curr_week, from the date that was looked
\* up and the flag curr_is_odd_date.
next_week(looked_up, curr_is_odd_date) ==
    (IF curr_is_odd_date THEN key_from_value(ODD_DATES, looked_up) ELSE looked_up)
        - WeekDays

\* cache_miss with the test of line 102 always true: every week is fetched.
cache_miss_always(rows, d) == TRUE

\* Lines 100-102: "res == None", for the SELECT of date d in the table rows.
cache_miss(rows, d) == d \notin DOMAIN rows

\* The entries the source serves for the chart published on p: what it served
\* before, or any chart if that week has not been read yet.
Served(c, p) ==
    IF p \in DOMAIN chartData[c] THEN {chartData[c][p]} ELSE SourceCharts

\* Lines 84-89: the chart of start_date is fetched and its date starts the walk.
StartScan ==
    /\ pc = "call"
    /\ curr_week' = ChartDate(start_date)
    /\ log' = <<Event("resolve", start_date, ChartDate(start_date), FALSE)>>
    /\ cands' = <<>>
    /\ pc' = "loop"
    /\ UNCHANGED <<today, chartData, db, query, chart, start_date, stop_date,
                   result, asked, prev_hit>>

\* Lines 107-119 for the week looked up under d with stored string res_str:
\* return the hit, or step one week back.
MatchOrStep(d, curr_is_odd_date, res_str) ==
    LET found == find_in_week(query, d, res_str)
    IN  IF found # None
        THEN /\ result' = found
             /\ pc' = "returned"
             /\ UNCHANGED curr_week
        ELSE /\ curr_week' = next_week(d, curr_is_odd_date)
             /\ pc' = "loop"
             /\ UNCHANGED result

\* One iteration of the loop whose SELECT finds the row (lines 90-119, 105).
WeekFromCache ==
    /\ pc = "loop"
    /\ loop_goes_on(curr_week, stop_date)
    /\ LET d == query_date(curr_week)
           rows == db[chart_name_to_table_name(chart)]
       IN  /\ ~cache_miss(rows, d)
           /\ log' = Append(log, Event("lookup", d, d, d \in DOMAIN rows))
           /\ cands' = Append(cands, curr_week)
           /\ MatchOrStep(d, curr_week \in DOMAIN ODD_DATES, rows[d])
    /\ UNCHANGED <<today, chartData, db, query, chart, start_date, stop_date,
                   asked, prev_hit>>

\* One iteration of the loop whose SELECT finds nothing: fetch_and_insert_date
\* (lines 62-75) fetches the chart and inserts it under chart.date.
WeekFromSource ==
    /\ pc = "loop"
    /\ loop_goes_on(curr_week, stop_date)
    /\ LET d == query_date(curr_week)
           t == chart_name_to_table_name(chart)
           key == ChartDate(d)
       IN  /\ cache_miss(db[t], d)
           /\ key \notin DOMAIN db[t]
           /\ \E entries \in Served(chart, key) :
                 LET artists_str == artists_str_of(chart, entries)
                 IN  /\ chartData' = [chartData EXCEPT ![chart] = Put(@, key, entries)]
                     /\ db' = [db EXCEPT ![t] = Put(@, key, artists_str)]
                     /\ log' = log \o <<Event("lookup", d, d, d \in DOMAIN db[t]),
                                        Event("fetch", d, key, FALSE),
                                        Event("insert", d, key, FALSE)>>
                     /\ cands' = Append(cands, curr_week)
                     /\ MatchOrStep(d, curr_week \in DOMAIN ODD_DATES, artists_str)
    /\ UNCHANGED <<today, query, chart, start_date, stop_date, asked, prev_hit>>

\* One iteration whose SELECT finds nothing and whose INSERT hits a row that
\* already has the key chart.date: sqlite3.IntegrityError ends the process.
InsertFails ==
    /\ pc = "loop"
    /\ loop_goes_on(curr_week, stop_date)
    /\ LET d == query_date(curr_week)
           t == chart_name_to_table_name(chart)
           key == ChartDate(d)
       IN  /\ cache_miss(db[t], d)
           /\ key \in DOMAIN db[t]
           /\ \E entries \in Served(chart, key) :
                 chartData' = [chartData EXCEPT ![chart] = Put(@, key, entries)]
           /\ log' = log \o <<Event("lookup", d, d, d \in DOMAIN db[t]),
                              Event("fetch", d, key, FALSE)>>
           /\ cands' = Append(cands, curr_week)
    /\ pc' = "failed"
    /\ UNCHANGED <<today, db, query, chart, start_date, stop_date, curr_week,
                   result, asked, prev_hit>>

\* A call of the Chart Source raises (lines 68 and 86): nothing catches it.
SourceFails ==
    /\ \/ /\ pc = "call"
          /\ log' = <<Event("resolve", start_date, NoDate, FALSE)>>
          /\ cands' = <<>>
       \/ /\ pc = "loop"
          /\ loop_goes_on(curr_week, stop_date)
          /\ LET d == query_date(curr_week)
                 t == chart_name_to_table_name(chart)
             IN  /\ cache_miss(db[t], d)
                 /\ log' = log \o <<Event("lookup", d, d, d \in DOMAIN db[t]),
                                    Event("fetch", d, NoDate, FALSE)>>
          /\ cands' = Append(cands, curr_week)
    /\ pc' = "failed"
    /\ UNCHANGED <<today, chartData, db, query, chart, start_date, stop_date,
                   curr_week, result, asked, prev_hit>>

\* Lines 90 and 121: the loop condition fails and the scan returns None.
Exhausted ==
    /\ pc = "loop"
    /\ ~loop_goes_on(curr_week, stop_date)
    /\ result' = None
    /\ pc' = "returned"
    /\ UNCHANGED <<today, chartData, db, query, chart, start_date, stop_date,
                   curr_week, asked, log, cands, prev_hit>>

-----------------------------------------------------------------------------

Next ==
    \/ InitDb
    \/ Input
    \/ StartScan
    \/ WeekFromCache
    \/ WeekFromSource
    \/ InsertFails
    \/ SourceFails
    \/ Exhausted
    \/ ContinueAfterHit
    \/ SearchBb200
    \/ NotFound
    \/ ContinueAgain
    \/ Quit

Spec == Init /\ [][Next]_vars

-----------------------------------------------------------------------------
(* The matcher on its own: one week of a scan, over every short roster *)

\* The credits rosters are drawn from.
Credits == {eY, eK, eKfY, eXfK, eYK}

\* Every chart of at most MaxRosterLen entries.
Rosters == UNION {[1..n -> Credits] : n \in 0..MaxRosterLen}

\* The week the scan stands at.
MatchWeek == 2 * WeekDays

\* A scan at the head of its loop, one week above the horizon, with the
\* week's chart either cached by an earlier scan or still to be fetched.
InitMatch ==
    /\ today = MatchWeek
    /\ chart \in Charts
    /\ \E typed \in TypedNames : query = Lower(Strip(typed))
    /\ \E entries \in Rosters, cached \in BOOLEAN :
          /\ chartData = [c \in Charts |-> IF c = chart THEN (MatchWeek :> entries)
                                                       ELSE NoRows]
          /\ db = IF cached THEN StoredBy(chartData) ELSE [t \in Tables |-> NoRows]
    /\ pc = "loop"
    /\ start_date = MatchWeek
    /\ stop_date = MatchWeek - WeekDays
    /\ curr_week = MatchWeek
    /\ result = None
    /\ asked = 1
    /\ log = <<Event("resolve", MatchWeek, MatchWeek, FALSE)>>
    /\ cands = <<>>
    /\ prev_hit = NoDate

NextMatch ==
    \/ WeekFromCache
    \/ WeekFromSource
    \/ Exhausted

SpecMatch == InitMatch /\ [][NextMatch]_vars

-----------------------------------------------------------------------------
(* Vocabulary of the properties *)

\* The table of the running scan.
ScanTable == db[chart_name_to_table_name(chart)]

\* The SELECTs of the running scan, in order: one per loop iteration.
Lookups == SelectSeq(log, LAMBDA e : e.op = "lookup")

\* The date the running scan started from, as the source resolved it.
ResolvedStart == log[1].key

\* A scan has run to its end.
ScanReturned == pc = "returned"

\* The entries of a chart as the cache is meant to hold them: the kept
\* entries, each lowercased.
RosterOf(c, entries) ==
    LET kept == IF c = "hot-100" THEN entries ELSE Take(entries, Bb200Kept)
    IN  [i \in 1..Len(kept) |-> Lower(kept[i])]

\* The roster the source publishes for the running scan's chart on date p.
Roster(p) == RosterOf(chart, chartData[chart][p])

\* The query is immediately preceded by " featuring " somewhere in the joined
\* roster.
Credited(q, roster) ==
    Contains(FEATURING \o q, Join(ARTIST_SEPARATOR, roster))

\* The positions of the roster whose entry contains the query.
Holders(q, roster) == {i \in 1..Len(roster) : Contains(q, roster[i])}

-----------------------------------------------------------------------------
(* C1 *)

\* C1 (as claimed): when a scan returns None, every weekly candidate from the
\* resolved start date down to and including the horizon (stop_date) has been
\* looked up, and no date earlier than the horizon has.
C1_NoMatchScanTestsThroughHorizon ==
    (ScanReturned /\ result = None) =>
        /\ \A d \in stop_date..ResolvedStart :
              (ResolvedStart - d) % WeekDays = 0 =>
                  \E i \in 1..Len(Lookups) : Lookups[i].date = query_date(d)
        /\ \A i \in 1..Len(Lookups) : Lookups[i].date >= stop_date

-----------------------------------------------------------------------------
(* C2 *)

\* The step is a loop iteration in which the Chart Source answered a fetch.
SourceAnswered ==
    \E i \in (Len(log) + 1)..Len(log') :
        log'[i].op = "fetch" /\ log'[i].key # NoDate

\* C2 (as claimed): a loop iteration whose lookup of the requested date D
\* misses, and whose fetch the source answers, leaves exactly one new row,
\* keyed D, with a non-empty roster string; an iteration whose lookup finds the
\* row makes no source call.
C2_MissStoresRequestedDate ==
    [][ (pc = "loop" /\ Len(cands') > Len(cands)) =>
          LET d == query_date(curr_week)
              t == chart_name_to_table_name(chart)
          IN  /\ (d \notin DOMAIN db[t] /\ SourceAnswered) =>
                    /\ DOMAIN db'[t] = (DOMAIN db[t]) \cup {d}
                    /\ db'[t][d] # <<>>
                    /\ \A k \in DOMAIN db[t] : db'[t][k] = db[t][k]
                    /\ \A u \in Tables \ {t} : db'[u] = db[u]
              /\ d \in DOMAIN db[t] =>
                    /\ log' = Append(log, Event("lookup", d, d, TRUE))
                    /\ db' = db
      ]_vars

-----------------------------------------------------------------------------
(* C3 *)

\* C3 (as claimed): no Chart Source call is made for a date unless a cache
\* lookup of that date was made earlier in the scan and missed.
C3_EverySourceCallFollowsAMiss ==
    \A i \in 1..Len(log) :
        log[i].op \in {"resolve", "fetch"} =>
            \E j \in 1..(i - 1) :
                /\ log[j].op = "lookup"
                /\ log[j].date = log[i].date
                /\ ~log[j].hit

\* C3 (amended): the scan's first operation is the source call that resolves
\* the start date, made without any cache lookup; every other source call is a
\* fetch that comes right after a lookup of the same date that missed.
C3_FetchFollowsItsMiss ==
    \A i \in 1..Len(log) :
        /\ log[i].op = "resolve" <=> i = 1
        /\ log[i].op = "fetch" =>
              /\ log[i - 1].op = "lookup"
              /\ log[i - 1].date = log[i].date
              /\ ~log[i - 1].hit

\* A scan has fetched a week after missing it in the cache.
C3_Witness ==
    \E i \in 1..Len(log) : log[i].op = "fetch" /\ log[i].key # NoDate

-----------------------------------------------------------------------------
(* C4, C5, C6: the matcher *)

\* The date of the last SELECT of the running scan.
LastWeek == Lookups[Len(Lookups)].date

\* The running scan has examined a week and the process is alive.
WeekExamined == Len(Lookups) >= 1 /\ pc \in {"loop", "returned"}

\* What the matcher gave for the last week examined.
Outcome == IF pc = "returned" /\ result # None THEN result ELSE None

\* The entry has the form "QUERY featuring Y" with Y not empty.
IsLead(q, entry) ==
    /\ Len(entry) > Len(q) + Len(FEATURING)
    /\ SubSeq(entry, 1, Len(q) + Len(FEATURING)) = q \o FEATURING

\* C4 (as claimed): whenever the roster of the week has an entry
\* "QUERY featuring Y", the week is a hit at that entry's position, listing
\* that entry's text.
C4_LeadEntryIsTheHit ==
    WeekExamined =>
        LET r == Roster(LastWeek)
        IN  \A i \in 1..Len(r) :
                IsLead(query, r[i]) => Outcome = FoundInfo(LastWeek, r[i], i)

\* C4 (amended): the same, provided the query is nowhere in the joined roster
\* directly preceded by " featuring " and no earlier entry contains the query.
C4_LeadEntryIsTheHitIfFirst ==
    WeekExamined =>
        LET r == Roster(LastWeek)
        IN  \A i \in 1..Len(r) :
                ( /\ IsLead(query, r[i])
                  /\ ~Credited(query, r)
                  /\ \A j \in 1..(i - 1) : ~Contains(query, r[j]) )
                => Outcome = FoundInfo(LastWeek, r[i], i)

\* A week whose second entry is "QUERY featuring Y" was examined and is the hit.
C4_Witness ==
    /\ WeekExamined
    /\ Len(Roster(LastWeek)) >= 2
    /\ IsLead(query, Roster(LastWeek)[2])
    /\ ~Credited(query, Roster(LastWeek))
    /\ ~Contains(query, Roster(LastWeek)[1])

\* C5: a loop iteration on a week whose stored roster string has the query
\* directly preceded by " featuring " returns no hit: the scan stays in its
\* loop and moves to the date seven days before the candidate.
C5_CreditedWeekIsPassedOver ==
    [][ (pc = "loop" /\ Len(cands') > Len(cands) /\ pc' # "failed") =>
          LET d == query_date(curr_week)
              rows == db'[chart_name_to_table_name(chart)]
          IN  (d \in DOMAIN rows /\ Contains(FEATURING \o query, rows[d])) =>
                  /\ pc' = "loop"
                  /\ result' = result
                  /\ curr_week' = curr_week - WeekDays
      ]_vars

\* The scan has just passed over a week in which the query is credited after
\* " featuring " and is also an entry of its own.
C5_Witness ==
    /\ pc = "loop"
    /\ Len(Lookups) >= 1
    /\ LastWeek \in DOMAIN ScanTable
    /\ Contains(FEATURING \o query, ScanTable[LastWeek])
    /\ \E i \in 1..Len(Roster(LastWeek)) : Roster(LastWeek)[i] = query
    /\ curr_week = cands[Len(cands)] - WeekDays

\* C6: when the week is not rejected by the featuring exclusion and some entry
\* contains the query, the week is a hit on the first such entry, with its
\* 1-indexed position and its full text; and every hit is on the first entry
\* that contains the query.
C6_HitIsFirstHolder ==
    WeekExamined =>
        LET r == Roster(LastWeek)
            H == Holders(query, r)
        IN  /\ (~Credited(query, r) /\ H # {}) =>
                  /\ Outcome = FoundInfo(LastWeek, r[Min(H)], Min(H))
                  /\ Outcome.position >= 1
            /\ Outcome # None =>
                  /\ Outcome.position \in H
                  /\ \A j \in H : j >= Outcome.position
                  /\ Outcome.artist = r[Outcome.position]

\* A hit at the second entry of a roster whose third entry also contains the
\* query.
C6_Witness ==
    /\ pc = "returned"
    /\ result # None
    /\ result.position = 2
    /\ Len(Lookups) >= 1
    /\ Holders(query, Roster(LastWeek)) = {2, 3}

-----------------------------------------------------------------------------
(* C7, C8: the calendar walk *)

\* C7: when the scan reaches a candidate D that is a key of ODD_DATES, the
\* lookup of that iteration, and the fetch if it misses, use ODD_DATES[D]; no
\* cache or source operation of the loop is made under a key of ODD_DATES;
\* and the candidate after D is D minus seven days.
C7_OddWeekUsesActualDate ==
    /\ Len(Lookups) = Len(cands)
    /\ \A k \in 1..Len(log) :
          /\ log[k].op # "resolve" => log[k].date \notin DOMAIN ODD_DATES
          /\ log[k].op = "fetch" => log[k].date = log[k - 1].date
    /\ \A i \in 1..Len(cands) :
          cands[i] \in DOMAIN ODD_DATES =>
              /\ Lookups[i].date = ODD_DATES[cands[i]]
              /\ i < Len(cands) => cands[i + 1] = cands[i] - WeekDays
              /\ (i = Len(cands) /\ pc = "loop") => curr_week = cands[i] - WeekDays

\* A scan fetched the chart of an odd week and went on to the next candidate.
C7_Witness ==
    \E i \in 1..(Len(cands) - 1) :
        /\ cands[i] \in DOMAIN ODD_DATES
        /\ \E k \in 1..Len(log) :
              log[k].op = "fetch" /\ log[k].date = ODD_DATES[cands[i]]

\* C8: the candidates of one scan start at the resolved start date and go
\* down by exactly seven days per step, also after an odd week; no candidate
\* and no looked-up date occurs twice in the scan.
C8_CandidatesStepBySevenDays ==
    /\ Len(cands) >= 1 => cands[1] = ResolvedStart
    /\ \A i \in 1..(Len(cands) - 1) : cands[i + 1] = cands[i] - WeekDays
    /\ (Len(cands) >= 1 /\ pc = "loop") =>
          curr_week = cands[Len(cands)] - WeekDays
    /\ \A i, j \in 1..Len(cands) :
          i # j => cands[i] # cands[j] /\ Lookups[i].date # Lookups[j].date

\* A scan of at least three weeks whose second candidate is an odd Saturday.
C8_Witness ==
    /\ Len(cands) >= 3
    /\ cands[2] \in DOMAIN ODD_DATES

-----------------------------------------------------------------------------
(* C9: the caller's continue loop *)

\* C9 (as claimed): a scan that continues from a hit on date H returns
\* nothing or a hit on a date strictly earlier than H.
C9_ContinuationHitIsEarlier ==
    (pc = "returned" /\ result # None /\ prev_hit # NoDate) =>
        result.date < prev_hit

-----------------------------------------------------------------------------
(* C10: early exit *)

\* The roster matches the query: some entry contains it and the featuring
\* exclusion does not reject the week.
WeekMatches(q, roster) == ~Credited(q, roster) /\ Holders(q, roster) # {}

\* C10: a scan that returns a hit returns the week it looked up last, which
\* matches and is not later than the resolved start; every week looked up
\* before it is later-dated and does not match; and no lookup, fetch or insert
\* of the scan is for a date older than the hit.
C10_ScanStopsAtFirstHit ==
    (pc = "returned" /\ result # None) =>
        /\ Len(Lookups) >= 1
        /\ result.date = LastWeek
        /\ result.date = query_date(cands[Len(cands)])
        /\ result.date <= ResolvedStart
        /\ WeekMatches(query, Roster(LastWeek))
        /\ \A i \in 1..(Len(Lookups) - 1) :
              /\ Lookups[i].date > result.date
              /\ ~WeekMatches(query, Roster(Lookups[i].date))
        /\ \A k \in 2..Len(log) :
              /\ log[k].date >= result.date
              /\ log[k].op = "insert" => log[k].key >= result.date
        /\ log[Len(log)].date = result.date

\* A hit returned after at least one week that did not match, while the
\* cache holds no row older than the hit.
C10_Witness ==
    /\ pc = "returned"
    /\ result # None
    /\ Len(Lookups) >= 2
    /\ \A d \in DOMAIN ScanTable : d >= result.date

-----------------------------------------------------------------------------
(* C11 *)

\* The step is a loop iteration whose fetch the Chart Source did not answer,
\* or answered with a chart that has no entries.
SourceGaveNothing ==
    \E i \in (Len(log) + 1)..Len(log') :
        /\ log'[i].op = "fetch"
        /\ \/ log'[i].key = NoDate
           \/ chartData'[chart][log'[i].key] = <<>>

\* C11 (as claimed): a loop iteration whose lookup misses and whose fetch
\* fails, because the Chart Source cannot be reached or returns no data,
\* writes no row (the cache is unchanged) and aborts the scan; after the abort
\* the scan makes no further lookup or fetch.
C11_FailedFetchAbortsAndWritesNothing ==
    [][ /\ (pc = "loop" /\ Len(cands') > Len(cands)) =>
              LET d == query_date(curr_week)
                  t == chart_name_to_table_name(chart)
              IN  (d \notin DOMAIN db[t] /\ SourceGaveNothing) =>
                      /\ db' = db
                      /\ pc' = "failed"
        /\ pc = "failed" => (log' = log /\ db' = db)
      ]_vars

-----------------------------------------------------------------------------
(* C12 *)

\* C12 (as claimed): once the cache has been initialized, and through any
\* sequence of scans, every row of both chart tables holds a non-empty roster
\* string.
C12_NoEmptyRosterIsStored ==
    pc # "init" =>
        \A t \in Tables : \A d \in DOMAIN db[t] : db[t][d] # <<>>

-----------------------------------------------------------------------------
(* C13 *)

\* Artist names made of the delimiter's characters, none containing the
\* delimiter itself; the empty name is one of them.
RoundTripNames ==
    {<<"K">>, <<Backquote>>, <<"~", "Y">>, <<"K", Backquote>>, <<>>}

\* Every chart of at most MaxRosterLen such names.
RoundTripRosters == UNION {[1..n -> RoundTripNames] : n \in 0..MaxRosterLen}

\* A scan at the head of its loop over a week whose chart is one of
\* RoundTripRosters, cached by an earlier scan or still to be fetched.
InitRoundTrip ==
    /\ today = MatchWeek
    /\ chart \in Charts
    /\ \E typed \in TypedNames : query = Lower(Strip(typed))
    /\ \E entries \in RoundTripRosters, cached \in BOOLEAN :
          /\ chartData = [c \in Charts |-> IF c = chart THEN (MatchWeek :> entries)
                                                       ELSE NoRows]
          /\ db = IF cached THEN StoredBy(chartData) ELSE [t \in Tables |-> NoRows]
    /\ pc = "loop"
    /\ start_date = MatchWeek
    /\ stop_date = MatchWeek - WeekDays
    /\ curr_week = MatchWeek
    /\ result = None
    /\ asked = 1
    /\ log = <<Event("resolve", MatchWeek, MatchWeek, FALSE)>>
    /\ cands = <<>>
    /\ prev_hit = NoDate

SpecRoundTrip == InitRoundTrip /\ [][NextMatch]_vars

\* No name of the roster contains the delimiter.
DelimiterFree(entries) ==
    \A i \in 1..Len(entries) : ~Contains(ARTIST_SEPARATOR, entries[i])

\* The stored string of the scanned week, split as line 109 splits it, is the
\* list of the lowercased names of the chart the source served.
SplitGivesBackRoster ==
    LET entries == chartData[chart][MatchWeek]
    IN  Split(ScanTable[MatchWeek], ARTIST_SEPARATOR)
            = [i \in 1..Len(entries) |-> Lower(entries[i])]

\* C13 (as claimed): for every roster, the empty one included, whose names do
\* not contain the delimiter, splitting the stored string gives back exactly
\* the lowercased names, in the same order and the same number.
C13_RoundTripOfEveryRoster ==
    (MatchWeek \in DOMAIN ScanTable /\ DelimiterFree(chartData[chart][MatchWeek]))
        => SplitGivesBackRoster

-----------------------------------------------------------------------------
(* C14 *)

\* The date d is older than the Hot 100 horizon.
TooOld(d) == d < TWENTY_YEARS_AGO

\* C14 (as claimed, the age purge read as that of the Hot 100 table): after
\* init_db no Hot 100 row is older than the Hot 100 horizon and no row of
\* either table has an empty roster; init_db run again at once changes
\* nothing; every row that is neither too old nor empty is unchanged.
C14_InitDbPurgesOldAndEmpty ==
    [][ pc = "init" =>
          /\ \A d \in DOMAIN db'["hot100"] : ~TooOld(d)
          /\ \A t \in Tables : \A d \in DOMAIN db'[t] : db'[t][d] # <<>>
          /\ \E skew \in UtcSkews :
                /\ db' = init_db(db, today + skew)
                /\ init_db(db', today + skew) = db'
          /\ \A t \in Tables : \A d \in DOMAIN db[t] :
                (db[t][d] # <<>> /\ (t = "hot100" => ~TooOld(d))) =>
                    (d \in DOMAIN db'[t] /\ db'[t][d] = db[t][d])
      ]_vars

-----------------------------------------------------------------------------
(* C15 *)

\* C15 (as claimed): when the Chart Source resolves the start date of a scan
\* to the actual publication date D' of an odd week (a value of ODD_DATES),
\* the candidate after D' is canonical(D') - 7 days and every later candidate
\* is a further week below it, on the canonical weekly dates.
C15_OddStartContinuesOnCanonicalDates ==
    (/\ pc \in {"loop", "returned", "failed"}
     /\ Len(log) >= 1
     /\ ResolvedStart \in Range(ODD_DATES)) =>
        \A i \in 2..Len(cands) :
            cands[i] = key_from_value(ODD_DATES, ResolvedStart) - (i - 1) * WeekDays

-----------------------------------------------------------------------------
(* C16 *)

\* C16 (as claimed): during a scan the cache only grows. A loop iteration
\* whose lookup hits writes nothing; one whose lookup misses and whose fetch
\* the source answers adds exactly one row to the table of the scanned chart;
\* the other table is untouched and no existing row is changed or deleted.
C16_ScanOnlyAddsOneRowPerMiss ==
    [][ (pc = "call" \/ pc = "loop") =>
          LET d == query_date(curr_week)
              t == chart_name_to_table_name(chart)
          IN  /\ \A u \in Tables : \A k \in DOMAIN db[u] :
                    k \in DOMAIN db'[u] /\ db'[u][k] = db[u][k]
              /\ \A u \in Tables \ {t} : db'[u] = db[u]
              /\ (pc = "loop" /\ Len(cands') > Len(cands) /\ d \in DOMAIN db[t]) =>
                    db' = db
              /\ (pc = "loop" /\ d \notin DOMAIN db[t] /\ SourceAnswered) =>
                    Cardinality(DOMAIN db'[t]) = Cardinality(DOMAIN db[t]) + 1
      ]_vars

-----------------------------------------------------------------------------
(* C17 *)

\* How many entries beyond the Billboard 200 cap the longest chart has.
MaxOver == 2

\* Charts of about Bb200Kept entries, from one below the cap to MaxOver
\* above it: artist K at one position, artist Y at all the others.
LongCharts ==
    UNION { {[i \in 1..n |-> IF i = p THEN eK ELSE eY] : p \in 1..n}
            : n \in (Bb200Kept - 1)..(Bb200Kept + MaxOver) }

\* A scan at the head of its loop over a week whose chart is one of
\* LongCharts, cached by an earlier scan or still to be fetched.
InitCap ==
    /\ today = MatchWeek
    /\ chart \in Charts
    /\ \E typed \in TypedNames : query = Lower(Strip(typed))
    /\ \E entries \in LongCharts, cached \in BOOLEAN :
          /\ chartData = [c \in Charts |-> IF c = chart THEN (MatchWeek :> entries)
                                                       ELSE NoRows]
          /\ db = IF cached THEN StoredBy(chartData) ELSE [t \in Tables |-> NoRows]
    /\ pc = "loop"
    /\ start_date = MatchWeek
    /\ stop_date = MatchWeek - WeekDays
    /\ curr_week = MatchWeek
    /\ result = None
    /\ asked = 1
    /\ log = <<Event("resolve", MatchWeek, MatchWeek, FALSE)>>
    /\ cands = <<>>
    /\ prev_hit = NoDate

SpecCap == InitCap /\ [][NextMatch]_vars

\* The names the stored row of the scanned week holds, in order.
StoredNames == Split(ScanTable[MatchWeek], ARTIST_SEPARATOR)

\* C17: the row stored for a Billboard 200 week holds the first 20 entries of
\* the fetched chart, or all of them if there are fewer, in chart order; the
\* row stored for a Hot 100 week holds every entry; a hit on a Billboard 200
\* week has a position of at most 20.
C17_Bb200RowHoldsTopTwenty ==
    MatchWeek \in DOMAIN ScanTable =>
        LET entries == chartData[chart][MatchWeek]
        IN  /\ chart = "hot-100" => Len(StoredNames) = Len(entries)
            /\ chart = "billboard-200" =>
                  /\ Len(StoredNames) <= Bb200Kept
                  /\ Len(StoredNames) = Len(entries) \/ Len(StoredNames) = Bb200Kept
            /\ \A i \in 1..Len(StoredNames) : StoredNames[i] = Lower(entries[i])
            /\ (ScanReturned /\ result # None /\ chart = "billboard-200") =>
                  result.position <= Bb200Kept

\* A Billboard 200 chart with artist K at position 21 has been fetched and
\* stored without that entry, and the scan for k has found nothing; the same
\* chart on the Hot 100 is stored whole.
C17_Witness ==
    /\ chart = "billboard-200"
    /\ \E i \in 1..Len(log) : log[i].op = "insert"
    /\ MatchWeek \in DOMAIN ScanTable
    /\ Len(chartData[chart][MatchWeek]) = Bb200Kept + MaxOver
    /\ chartData[chart][MatchWeek][Bb200Kept + 1] = eK
    /\ Len(StoredNames) = Bb200Kept
    /\ query = <<"k">>
    /\ ScanReturned
    /\ result = None

-----------------------------------------------------------------------------
(* C18 *)

\* A step of find_in_table: the call of the source for the start date, or one
\* iteration of the loop, or the exit of the loop.
ScanStep ==
    \/ StartScan
    \/ WeekFromCache
    \/ WeekFromSource
    \/ InsertFails
    \/ SourceFails
    \/ Exhausted

\* The program is one synchronous thread: a scan that can take a step takes it.
SpecFair == Spec /\ WF_vars(ScanStep)

\* The scan has ended: it returned a hit or None, or an exception ended it.
ScanEnded == pc \in {"returned", "failed"}

\* The scan has ended in one of the three ways the claim names: a hit, None,
\* or the failure of a call of the Chart Source.
ClaimedEnd ==
    \/ pc = "returned"
    \/ pc = "failed" /\ log[Len(log)].key = NoDate

\* C18 (as claimed): every scan, from any start date, ends after finitely
\* many iterations with a hit, with None or with the failure of a fetch, and
\* in no other way; curr_week is strictly smaller after every iteration that
\* does not end the scan.
C18_ScanTerminates ==
    /\ (pc = "call" \/ pc = "loop") ~> ClaimedEnd
    /\ [][ ((pc = "call" \/ pc = "loop") /\ pc' # "call" /\ pc' # "loop")
              => ClaimedEnd' ]_vars
    /\ [][ (pc = "loop" /\ pc' = "loop") => curr_week' < curr_week ]_vars

-----------------------------------------------------------------------------
(* C19 *)

\* The outcome of a scan that an uncaught exception ended, as a value of the
\* shape of a result.
Crash == [date |-> NoDate, artist |-> <<>>, position |-> 0 - 1]

\* The outcome of a scan of which the source has not yet served a week.
NotServed == [date |-> NoDate, artist |-> <<>>, position |-> 0 - 2]

\* find_in_table run from week w on a cache that was empty when the scan
\* started and to which the scan has added the rows keyed in added, with the
\* charts the source serves read from chartData: the string of lines 70-71
\* is matched as lines 107-114 match it and the week is a hit, or the INSERT
\* of a week the source dates like a row already added fails, or the scan
\* goes on from the next week, until the loop condition fails.
RECURSIVE ScanOfEmptyCache(_, _)
ScanOfEmptyCache(w, added) ==
    IF ~(w > stop_date) THEN None
    ELSE LET d == query_date(w)
             key == IF d \in added THEN d ELSE ChartDate(d)
         IN  IF d \notin added /\ key \in added THEN Crash
             ELSE IF key \notin DOMAIN chartData[chart] THEN NotServed
             ELSE LET res_str == artists_str_of(chart, chartData[chart][key])
                      found == find_in_week(query, d, res_str)
                  IN  IF found # None THEN found
                      ELSE ScanOfEmptyCache(next_week(d, w \in DOMAIN ODD_DATES),
                                            added \cup {key})

\* The Chart Source answered every call of the running scan.
SourceAlwaysAnswered == \A i \in 1..Len(log) : log[i].key # NoDate

\* How the running scan ended.
ScanOutcome == IF pc = "returned" THEN result ELSE Crash

\* C19: with a source that always answers and serves the same chart for the
\* same week, a scan over the cache as earlier runs and earlier scans left it
\* ends as the scan of the same chart, query and start date over an empty
\* cache ends: same hit, or None, or the same failure.
C19_CacheIsTransparent ==
    (ScanEnded /\ SourceAlwaysAnswered) =>
        ScanOutcome = ScanOfEmptyCache(ResolvedStart, {})

\* A scan has returned after reading at least one week from the cache and at
\* least one from the source, with the outcome of the scan over an empty cache.
C19_Witness ==
    /\ ScanReturned
    /\ \E i \in 1..Len(Lookups) : Lookups[i].hit
    /\ \E i \in 1..Len(Lookups) : ~Lookups[i].hit
    /\ result = ScanOfEmptyCache(ResolvedStart, {})


=============================================================================
